---- MODULE Spec2Model ----
(***************************************************************************)
(* fluxion-out-prometheus (src/main.go): the plugin's life cycle (Init,    *)
(* Start, Encode, Close), the construction of one handler per configured   *)
(* metric, and the per-event update of the gauge and counter series.       *)
(*                                                                         *)
(* Outside the repository and modelled by their documented outcomes:       *)
(*   - scan.ScanTree (mattn/go-scan): nil, an error whose text begins      *)
(*     "invalid path", or any other error; the target is written only on   *)
(*     nil;                                                                *)
(*   - prometheus.Register / WithLabelValues / Set / Add / Inc: Register   *)
(*     refuses a name that is already registered, WithLabelValues creates  *)
(*     the child of a label combination (value 0) when it has none.        *)
(* Strings that are sorted (label names) are sequences of byte values, so  *)
(* that sort.Strings is a computation and not an assumption.               *)
(***************************************************************************)
EXTENDS Integers, Sequences, FiniteSets, TLC

\* The number of events the host passes to Encode in one run.
MaxEvents == 2

VARIABLES
    rawConf,    \* the configuration file as the host's loader sees it
    lifecycle,  \* "new", "init_failed", "inited", "start_failed", "serving", "closed"
    conf,       \* OutPrometheus.conf.Metrics
    handlers,   \* OutPrometheus.handlers
    registry,   \* prometheus' default registry: name -> collector
    ln,         \* OutPrometheus.ln: "nil", "bound", "closed"
    served,     \* the goroutine of http.Server.Serve was started
    startErr,   \* what Init or Start returned last: "nil" or the error
    lastEv,     \* the event of the latest Encode call (NoEvent before)
    log,        \* what the latest Encode call passed to env.Log.Error
    encodeRet,  \* the error the latest Encode call returned
    nEvents     \* the number of Encode calls so far

vars == <<rawConf, lifecycle, conf, handlers, registry, ln, served,
          startErr, lastEv, log, encodeRet, nEvents>>

(***************************************************************************)
(* Strings with an order: label names as sequences of bytes.               *)
(***************************************************************************)
Min(a, b) == IF a < b THEN a ELSE b

\* Go's string comparison s < t: byte-wise, a proper prefix is smaller.
StrLess(s, t) ==
    \E i \in 1..(Min(Len(s), Len(t)) + 1) :
        /\ \A j \in 1..(i - 1) : s[j] = t[j]
        /\ \/ (i = Len(s) + 1 /\ i <= Len(t))
           \/ (i <= Len(s) /\ i <= Len(t) /\ s[i] < t[i])

RECURSIVE InsertSorted(_, _)
InsertSorted(x, seq) ==
    IF seq = <<>> THEN <<x>>
    ELSE IF StrLess(Head(seq), x) THEN <<Head(seq)>> \o InsertSorted(x, Tail(seq))
    ELSE <<x>> \o seq

\* sort.Strings(m.labelKeys)
RECURSIVE SortStrings(_)
SortStrings(seq) ==
    IF seq = <<>> THEN <<>> ELSE InsertSorted(Head(seq), SortStrings(Tail(seq)))

RECURSIVE Perms(_)
Perms(S) ==
    IF S = {} THEN {<<>>}
    ELSE UNION {{<<x>> \o p : p \in Perms(S \ {x})} : x \in S}

(***************************************************************************)
(* Events.  A record is seen through the paths the configuration uses.     *)
(***************************************************************************)
Absent == [kind |-> "absent", num |-> 0, str |-> ""]
Num(n) == [kind |-> "num", num |-> n, str |-> ""]
Str(s) == [kind |-> "str", num |-> 0, str |-> s]
Bool   == [kind |-> "bool", num |-> 0, str |-> ""]
\* a node on which ScanTree fails with an error that is not "invalid path"
Bad    == [kind |-> "bad", num |-> 0, str |-> ""]

Events ==
    {[p \in {"v", "p", "q"} |->
        CASE p = "v" -> n1 [] p = "p" -> n2 [] OTHER -> n3] :
        n1 \in {Absent, Num(-1), Num(2), Bool, Bad},
        n2 \in {Absent, Str("x"), Num(7)},
        n3 \in {Absent, Str("y")}}

NoEvent == [p \in {} |-> Absent]

\* scan.ScanTree(ev.Record, p, t) for t a *float64, *string or *interface{}
ScanTree(record, p, target) ==
    LET n == IF p \in DOMAIN record THEN record[p] ELSE Absent
        fits == CASE target = "float64" -> n.kind = "num"
                  [] target = "string"  -> n.kind = "str"
                  [] OTHER              -> n.kind \in {"num", "str", "bool"}
    IN  IF n.kind = "absent" THEN [err |-> "invalid path", num |-> 0, str |-> ""]
        ELSE IF fits THEN [err |-> "nil", num |-> n.num, str |-> n.str]
        ELSE [err |-> "other", num |-> 0, str |-> ""]

(***************************************************************************)
(* Configuration: MetricType, CountMode, Metric.                           *)
(***************************************************************************)
\* MetricType.UnmarshalText
MetricTypeUnmarshalText(s) ==
    IF s \in {"gauge", "counter"} THEN [err |-> "nil", val |-> s]
    ELSE [err |-> "Unknown metric type", val |-> ""]

\* CountMode.UnmarshalText
CountModeUnmarshalText(s) ==
    IF s \in {"value", "exist", "non_exist"} THEN [err |-> "nil", val |-> s]
    ELSE [err |-> "Unknown count mode", val |-> ""]

\* The decoding of one metric table by env.ReadConfig: UnmarshalText runs on
\* the keys the file gives, a key it does not give leaves the zero value.
DecodeMetric(raw) ==
    LET t == IF raw.hasType THEN MetricTypeUnmarshalText(raw.Type)
             ELSE [err |-> "nil", val |-> ""]
        c == IF raw.hasCountMode THEN CountModeUnmarshalText(raw.CountMode)
             ELSE [err |-> "nil", val |-> ""]
    IN  [err |-> IF t.err # "nil" THEN t.err ELSE c.err,
         m   |-> [Type |-> t.val, Value |-> raw.Value, CountMode |-> c.val,
                  Labels |-> raw.Labels, labelKeys |-> <<>>]]

\* env.ReadConfig(&p.conf) on the whole file
ReadConfig(raw) ==
    LET d == [n \in DOMAIN raw |-> DecodeMetric(raw[n])]
        bad == {n \in DOMAIN raw : d[n].err # "nil"}
    IN  [err |-> IF bad = {} THEN "nil" ELSE d[CHOOSE n \in bad : TRUE].err,
         Metrics |-> [n \in DOMAIN raw |-> d[n].m]]

(***************************************************************************)
(* The sink: a collector's children, one value per label combination.      *)
(***************************************************************************)
NoChildren == [l \in {} |-> 0]

\* prometheus.Register(v)
Register(reg, name, kind, labelNames) ==
    IF name \in DOMAIN reg THEN [err |-> "duplicate registration", reg |-> reg]
    ELSE [err |-> "nil",
          reg |-> reg @@ (name :> [kind |-> kind, labelNames |-> labelNames,
                                    children |-> NoChildren])]

\* vec.WithLabelValues(lvals...): the child, created with value 0 if new
WithLabelValues(children, lvals) ==
    IF lvals \in DOMAIN children THEN children ELSE children @@ (lvals :> 0)

\* Fault variant of GaugeSet (C2): the value is added to the old one.
GaugeSetAdds(children, lvals, v) == [children EXCEPT ![lvals] = @ + v]

\* Gauge.Set(v) on the child of lvals
GaugeSet(children, lvals, v) == [children EXCEPT ![lvals] = v]

\* Counter.Add(v) on the child of lvals
CounterAdd(children, lvals, v) == [children EXCEPT ![lvals] = @ + v]

\* Counter.Inc() on the child of lvals
CounterInc(children, lvals) == [children EXCEPT ![lvals] = @ + 1]

(***************************************************************************)
(* Metric.New, newGauge, newCounter.                                       *)
(***************************************************************************)
NoHandler == [name |-> "", kind |-> "nil"]

newGauge(name, m, reg) ==
    LET r == Register(reg, name, "gauge", m.labelKeys)
    IN  IF r.err # "nil" THEN [err |-> r.err, h |-> NoHandler, reg |-> r.reg]
        ELSE [err |-> "nil", h |-> [name |-> name, kind |-> "gauge", Metric |-> m],
              reg |-> r.reg]

newCounter(name, m, reg) ==
    LET r == Register(reg, name, "counter", m.labelKeys)
    IN  IF r.err # "nil" THEN [err |-> r.err, h |-> NoHandler, reg |-> r.reg]
        ELSE [err |-> "nil", h |-> [name |-> name, kind |-> "counter", Metric |-> m],
              reg |-> r.reg]

\* Fault variant of NewLabelKeys (C7): the sort is left out.
NewLabelKeysUnsorted(m, keyOrder) == m.labelKeys \o keyOrder

\* The label names of m as New leaves them; keyOrder is the order in which
\* "for key := range m.Labels" visits the map.
NewLabelKeys(m, keyOrder) == SortStrings(m.labelKeys \o keyOrder)

\* Metric.New(name)
MetricNew(name, m, keyOrder, reg) ==
    LET m1 == [m EXCEPT !.CountMode = IF @ = "" THEN "value" ELSE @,
                        !.labelKeys = NewLabelKeys(m, keyOrder)]
    IN  CASE m1.Type = "gauge"   -> newGauge(name, m1, reg)
          [] m1.Type = "counter" -> newCounter(name, m1, reg)
          [] OTHER -> [err |-> "Unknown metric type", h |-> NoHandler, reg |-> reg]

(***************************************************************************)
(* Metric.scan, Metric.labelValues, HandleEvent.                           *)
(***************************************************************************)
\* Fault variant of Scan (C10): "invalid path" is returned like any error.
ScanKeepsInvalidPath(ev, p, target) == ScanTree(ev, p, target)

\* Metric.scan: ScanTree with an "invalid path" error turned into nil
Scan(ev, p, target) ==
    LET r == ScanTree(ev, p, target)
    IN  IF r.err = "nil" \/ r.err = "invalid path" THEN [r EXCEPT !.err = "nil"]
        ELSE r

\* Fault variant of labelValuesFrom (C6): a label that fails is left out and
\* the loop goes on with the rest.
RECURSIVE labelValuesFromKeepsGoing(_, _, _, _)
labelValuesFromKeepsGoing(m, ev, i, vals) ==
    IF i > Len(m.labelKeys) THEN [err |-> "nil", vals |-> vals]
    ELSE LET r == ScanTree(ev, m.Labels[m.labelKeys[i]], "string")
         IN  IF r.err = "other" THEN labelValuesFromKeepsGoing(m, ev, i + 1, vals)
             ELSE labelValuesFromKeepsGoing(m, ev, i + 1, Append(vals, r.str))

\* Metric.labelValues: the loop from the i-th label name on
RECURSIVE labelValuesFrom(_, _, _, _)
labelValuesFrom(m, ev, i, vals) ==
    IF i > Len(m.labelKeys) THEN [err |-> "nil", vals |-> vals]
    ELSE LET r == Scan(ev, m.Labels[m.labelKeys[i]], "string")
         IN  IF r.err # "nil" THEN [err |-> r.err, vals |-> <<>>]
             ELSE labelValuesFrom(m, ev, i + 1, Append(vals, r.str))

labelValues(m, ev) == labelValuesFrom(m, ev, 1, <<>>)

\* Gauge.HandleEvent
GaugeHandleEvent(g, ev, children) ==
    LET v == Scan(ev, g.Metric.Value, "float64")
        l == labelValues(g.Metric, ev)
    IN  IF v.err # "nil" THEN [err |-> v.err, children |-> children]
        ELSE IF l.err # "nil" THEN [err |-> l.err, children |-> children]
        ELSE [err |-> "nil",
              children |-> GaugeSet(WithLabelValues(children, l.vals), l.vals, v.num)]

\* Fault variant of CounterHandleEvent (C4): the count mode is looked at
\* before the empty value path.
CounterHandleEventModeFirst(g, ev, children) ==
    LET l == labelValues(g.Metric, ev)
        c == WithLabelValues(children, l.vals)
        v == Scan(ev, g.Metric.Value, "float64")
        u == ScanTree(ev, g.Metric.Value, "interface")
    IN  IF l.err # "nil" THEN [err |-> l.err, children |-> children]
        ELSE IF g.Metric.CountMode = "value" THEN
            IF g.Metric.Value = "" THEN [err |-> "nil", children |-> CounterInc(c, l.vals)]
            ELSE IF v.err # "nil" THEN [err |-> v.err, children |-> c]
            ELSE IF v.num < 0 THEN [err |-> "Counter value must be >=0", children |-> c]
            ELSE [err |-> "nil", children |-> CounterAdd(c, l.vals, v.num)]
        ELSE IF \/ (g.Metric.CountMode = "exist" /\ u.err = "nil")
                \/ (g.Metric.CountMode = "non_exist" /\ u.err # "nil")
            THEN [err |-> "nil", children |-> CounterInc(c, l.vals)]
        ELSE [err |-> "nil", children |-> c]

\* Fault variant of CounterHandleEvent (C5): the presence of the value path
\* is read from Metric.scan, which turns "invalid path" into nil.
CounterHandleEventScansPresence(g, ev, children) ==
    LET l == labelValues(g.Metric, ev)
        c == WithLabelValues(children, l.vals)
        v == Scan(ev, g.Metric.Value, "float64")
        u == Scan(ev, g.Metric.Value, "interface")
        found == u.err = "nil"
    IN  IF l.err # "nil" THEN [err |-> l.err, children |-> children]
        ELSE IF g.Metric.Value = "" THEN
            [err |-> "nil", children |-> CounterInc(c, l.vals)]
        ELSE IF g.Metric.CountMode = "value" THEN
            IF v.err # "nil" THEN [err |-> v.err, children |-> c]
            ELSE IF v.num < 0 THEN [err |-> "Counter value must be >=0", children |-> c]
            ELSE [err |-> "nil", children |-> CounterAdd(c, l.vals, v.num)]
        ELSE IF \/ (g.Metric.CountMode = "exist" /\ found)
                \/ (g.Metric.CountMode = "non_exist" /\ ~found)
            THEN [err |-> "nil", children |-> CounterInc(c, l.vals)]
        ELSE [err |-> "nil", children |-> c]

\* Counter.HandleEvent
CounterHandleEvent(g, ev, children) ==
    LET l == labelValues(g.Metric, ev)
        c == WithLabelValues(children, l.vals)
        v == Scan(ev, g.Metric.Value, "float64")
        u == ScanTree(ev, g.Metric.Value, "interface")
    IN  IF l.err # "nil" THEN [err |-> l.err, children |-> children]
        ELSE IF g.Metric.Value = "" THEN
            [err |-> "nil", children |-> CounterInc(c, l.vals)]
        ELSE IF g.Metric.CountMode = "value" THEN
            IF v.err # "nil" THEN [err |-> v.err, children |-> c]
            ELSE IF v.num < 0 THEN [err |-> "Counter value must be >=0", children |-> c]
            ELSE [err |-> "nil", children |-> CounterAdd(c, l.vals, v.num)]
        ELSE IF \/ (g.Metric.CountMode = "exist" /\ u.err = "nil")
                \/ (g.Metric.CountMode = "non_exist" /\ u.err # "nil")
            THEN [err |-> "nil", children |-> CounterInc(c, l.vals)]
        ELSE [err |-> "nil", children |-> c]

\* h.HandleEvent(ev) through the Handler interface
HandleEvent(h, ev, children) ==
    IF h.kind = "gauge" THEN GaugeHandleEvent(h, ev, children)
    ELSE CounterHandleEvent(h, ev, children)

(***************************************************************************)
(* The configurations and the initial state.                               *)
(***************************************************************************)
\* label names "ab" and "b" (bytes), read from the paths q and p
NoLabels  == [k \in {} |-> ""]
TwoLabels == (<<97, 98>> :> "q") @@ (<<98>> :> "p")
LabelMaps == {NoLabels, TwoLabels}

RawTypes ==
    {[has |-> TRUE, text |-> t] : t \in {"gauge", "counter", "histogram"}}
        \cup {[has |-> FALSE, text |-> ""]}

RawModes ==
    {[has |-> TRUE, text |-> t] : t \in {"value", "exist", "non_exist", "bogus"}}
        \cup {[has |-> FALSE, text |-> ""]}

\* One metric table of the file.  A gauge is given a value path.
RawMetrics ==
    {r \in {[hasType |-> t.has, Type |-> t.text, Value |-> v,
             hasCountMode |-> c.has, CountMode |-> c.text, Labels |-> l] :
                t \in RawTypes, v \in {"", "v"}, c \in RawModes, l \in LabelMaps} :
        r.Type = "gauge" => (r.Value = "v" /\ ~r.hasCountMode)}

RawCounter(v, mode, l) ==
    [hasType |-> TRUE, Type |-> "counter", Value |-> v,
     hasCountMode |-> TRUE, CountMode |-> mode, Labels |-> l]

RawGauge(v, l) ==
    [hasType |-> TRUE, Type |-> "gauge", Value |-> v,
     hasCountMode |-> FALSE, CountMode |-> "", Labels |-> l]

\* Files with one metric, with an exist and a non_exist counter of one
\* value path, and with three metrics.
Configs ==
    {("m1" :> r) : r \in RawMetrics}
    \cup {("m1" :> RawCounter("v", "exist", l1)) @@ ("m2" :> RawCounter("v", "non_exist", l2)) :
            l1 \in LabelMaps, l2 \in LabelMaps}
    \cup {("m1" :> RawGauge("v", l)) @@ ("m2" :> RawCounter("v", "value", NoLabels))
            @@ ("m3" :> RawCounter("", m, TwoLabels)) :
            l \in LabelMaps, m \in {"value", "bogus"}}

\* a collector some other code of the process has registered
OtherCollector == [kind |-> "other", labelNames |-> <<>>, children |-> NoChildren]

Init ==
    /\ rawConf \in Configs
    /\ registry \in {[n \in S |-> OtherCollector] : S \in {{}, {"m1"}}}
    /\ lifecycle = "new"
    /\ conf = [n \in {} |-> 0]
    /\ handlers = <<>>
    /\ ln = "nil"
    /\ served = FALSE
    /\ startErr = "nil"
    /\ lastEv = NoEvent
    /\ log = <<>>
    /\ encodeRet = "nil"
    /\ nEvents = 0

(***************************************************************************)
(* OutPrometheus: Init, Start, Encode, Close.                              *)
(***************************************************************************)
\* OutPrometheus.Init
PluginInit ==
    /\ lifecycle = "new"
    /\ LET r == ReadConfig(rawConf)
       IN  /\ startErr' = r.err
           /\ conf' = r.Metrics
           /\ lifecycle' = IF r.err = "nil" THEN "inited" ELSE "init_failed"
    /\ UNCHANGED <<rawConf, handlers, registry, ln, served, lastEv, log,
                   encodeRet, nEvents>>

\* Fault variant of StartLoop (C9): a metric whose handler cannot be built
\* is passed over.
RECURSIVE StartLoopSkipsFailed(_, _, _, _, _)
StartLoopSkipsFailed(order, keyOrder, i, hs, reg) ==
    IF i > Len(order) THEN [err |-> "nil", hs |-> hs, reg |-> reg]
    ELSE LET r == MetricNew(order[i], conf[order[i]], keyOrder[order[i]], reg)
         IN  IF r.err # "nil"
               THEN StartLoopSkipsFailed(order, keyOrder, i + 1, hs, r.reg)
             ELSE StartLoopSkipsFailed(order, keyOrder, i + 1, Append(hs, r.h), r.reg)

\* The loop of Start from the i-th metric of the map's iteration order on.
RECURSIVE StartLoop(_, _, _, _, _)
StartLoop(order, keyOrder, i, hs, reg) ==
    IF i > Len(order) THEN [err |-> "nil", hs |-> hs, reg |-> reg]
    ELSE LET r == MetricNew(order[i], conf[order[i]], keyOrder[order[i]], reg)
         IN  IF r.err # "nil" THEN [err |-> r.err, hs |-> hs, reg |-> r.reg]
             ELSE StartLoop(order, keyOrder, i + 1, Append(hs, r.h), r.reg)

\* OutPrometheus.Start: order and keyOrder are the iteration orders of the
\* maps, listenOk whether net.Listen succeeds.
Start ==
    /\ lifecycle = "inited"
    /\ \E order \in Perms(DOMAIN conf), listenOk \in BOOLEAN :
       \E keyOrder \in {f \in [DOMAIN conf -> Perms(DOMAIN TwoLabels) \cup {<<>>}] :
                            \A n \in DOMAIN conf : f[n] \in Perms(DOMAIN conf[n].Labels)} :
         LET r == StartLoop(order, keyOrder, 1, handlers, registry)
         IN  /\ handlers' = r.hs
             /\ registry' = r.reg
             /\ IF r.err # "nil"
                   THEN /\ startErr' = r.err
                        /\ lifecycle' = "start_failed"
                        /\ UNCHANGED <<ln, served>>
                ELSE IF ~listenOk
                   THEN /\ startErr' = "listen"
                        /\ lifecycle' = "start_failed"
                        /\ UNCHANGED <<ln, served>>
                ELSE /\ startErr' = "nil"
                     /\ lifecycle' = "serving"
                     /\ ln' = "bound"
                     /\ served' = TRUE
    /\ UNCHANGED <<rawConf, conf, lastEv, log, encodeRet, nEvents>>

\* Fault variant of EncodeLoop (C1): the first failing handler ends the loop.
RECURSIVE EncodeLoopStopsAtError(_, _, _, _)
EncodeLoopStopsAtError(ev, i, reg, lg) ==
    IF i > Len(handlers) THEN [reg |-> reg, log |-> lg]
    ELSE LET h == handlers[i]
             r == HandleEvent(h, ev, reg[h.name].children)
             reg1 == [reg EXCEPT ![h.name].children = r.children]
         IN  IF r.err # "nil"
               THEN [reg |-> reg1, log |-> Append(lg, [h |-> h.name, err |-> r.err])]
             ELSE EncodeLoopStopsAtError(ev, i + 1, reg1, lg)

\* The loop of Encode from the i-th handler on.
RECURSIVE EncodeLoop(_, _, _, _)
EncodeLoop(ev, i, reg, lg) ==
    IF i > Len(handlers) THEN [reg |-> reg, log |-> lg]
    ELSE LET h == handlers[i]
             r == HandleEvent(h, ev, reg[h.name].children)
             reg1 == [reg EXCEPT ![h.name].children = r.children]
         IN  IF r.err # "nil"
               THEN EncodeLoop(ev, i + 1, reg1, Append(lg, [h |-> h.name, err |-> r.err]))
             ELSE EncodeLoop(ev, i + 1, reg1, lg)

\* OutPrometheus.Encode
Encode(ev) ==
    /\ lifecycle = "serving"
    /\ nEvents < MaxEvents
    /\ LET r == EncodeLoop(ev, 1, registry, <<>>)
       IN  /\ registry' = r.reg
           /\ log' = r.log
    /\ encodeRet' = "nil"
    /\ lastEv' = ev
    /\ nEvents' = nEvents + 1
    /\ UNCHANGED <<rawConf, lifecycle, conf, handlers, ln, served, startErr>>

\* OutPrometheus.Close
Close ==
    /\ lifecycle = "serving"
    /\ ln' = "closed"
    /\ lifecycle' = "closed"
    /\ UNCHANGED <<rawConf, conf, handlers, registry, served, startErr, lastEv,
                   log, encodeRet, nEvents>>

Next ==
    \/ PluginInit
    \/ Start
    \/ \E ev \in Events : Encode(ev)
    \/ Close

Spec == Init /\ [][Next]_vars

(***************************************************************************)
(* Vocabulary of the properties.                                           *)
(***************************************************************************)
HandlerIdx == 1..Len(handlers)

Children(h) == registry[h.name].children

\* An Encode call is the step that counts an event; its event is lastEv'.
EncodeStep == nEvents' = nEvents + 1

Logged(lg, h) == \E i \in 1..Len(lg) : lg[i].h = h.name

\* a label path of m on which resolution fails other than by "invalid path"
LabelHard(m, ev) ==
    \E k \in DOMAIN m.Labels : ScanTree(ev, m.Labels[k], "string").err = "other"

\* the label values one by one: the string at the label's path, "" if absent
ExpectedLabels(m, ev) ==
    [i \in 1..Len(m.labelKeys) |->
        LET n == ev[m.Labels[m.labelKeys[i]]]
        IN  IF n.kind = "str" THEN n.str ELSE ""]

RECURSIVE SumOver(_, _)
SumOver(f, S) ==
    IF S = {} THEN 0
    ELSE LET x == CHOOSE y \in S : TRUE IN f[x] + SumOver(f, S \ {x})

\* the sum of the values of a series
Total(children) == SumOver(children, DOMAIN children)

ValueAt(children, l) == IF l \in DOMAIN children THEN children[l] ELSE 0

(***************************************************************************)
(* C1.  Dispatch isolation: an Encode call runs every handler exactly once *)
(* on the event; each handler's series is what its own HandleEvent makes   *)
(* of it, whether or not another handler failed; each failure is logged    *)
(* once; Encode returns nil; the handlers stay registered for later events.*)
(***************************************************************************)
C1_DispatchIsolation ==
    [][EncodeStep =>
        /\ encodeRet' = "nil"
        /\ handlers' = handlers
        /\ \A i \in HandlerIdx :
              LET h == handlers[i]
                  r == HandleEvent(h, lastEv', Children(h))
              IN  /\ registry'[h.name].children = r.children
                  /\ (r.err # "nil") <=> Logged(log', h)
                  /\ Cardinality({j \in 1..Len(log') : log'[j].h = h.name}) <= 1
        /\ \A j \in 1..Len(log') : \E i \in HandlerIdx : handlers[i].name = log'[j].h
    ]_vars

\* three handlers, the second failed and is logged, the first and the third
\* updated their series, Encode returned nil
C1_Witness ==
    /\ Len(handlers) = 3
    /\ nEvents > 0
    /\ encodeRet = "nil"
    /\ Logged(log, handlers[2])
    /\ ~Logged(log, handlers[1]) /\ Total(Children(handlers[1])) > 0
    /\ ~Logged(log, handlers[3]) /\ Total(Children(handlers[3])) > 0

(***************************************************************************)
(* C2.  Gauge overwrite: after an event whose value path holds a number    *)
(* and whose labels resolve, the gauge's value for the resolved label      *)
(* combination is that number, whatever earlier events had set.            *)
(***************************************************************************)
C2_GaugeOverwrite ==
    nEvents > 0 =>
        \A i \in HandlerIdx :
            LET h == handlers[i]
                l == ExpectedLabels(h.Metric, lastEv)
            IN  (/\ h.kind = "gauge"
                 /\ ScanTree(lastEv, h.Metric.Value, "float64").err = "nil"
                 /\ ~LabelHard(h.Metric, lastEv))
                => /\ l \in DOMAIN Children(h)
                   /\ Children(h)[l] = lastEv[h.Metric.Value].num

\* a second event has set a labelled gauge to 2
C2_Witness ==
    /\ nEvents = 2
    /\ \E i \in HandlerIdx :
         /\ handlers[i].kind = "gauge"
         /\ lastEv["v"] = Num(2) /\ lastEv["p"] = Str("x") /\ lastEv["q"] = Absent
         /\ Children(handlers[i]) = (<<"", "x">> :> 2)

(***************************************************************************)
(* C3.  A counter with a value path and countMode=value, on an event whose *)
(* value is negative: HandleEvent fails with the validation error and the  *)
(* series is left as it was, no data point created.                        *)
(***************************************************************************)
NegativeFor(h, ev) ==
    /\ h.kind = "counter" /\ h.Metric.Value # "" /\ h.Metric.CountMode = "value"
    /\ ~LabelHard(h.Metric, ev)
    /\ ScanTree(ev, h.Metric.Value, "float64").err = "nil"
    /\ ev[h.Metric.Value].num < 0

C3_NegativeLeavesSeriesUnchanged ==
    [][EncodeStep =>
        \A i \in HandlerIdx :
            LET h == handlers[i]
            IN  NegativeFor(h, lastEv')
                => /\ \E j \in 1..Len(log') :
                        log'[j] = [h |-> h.name, err |-> "Counter value must be >=0"]
                   /\ registry'[h.name].children = Children(h)
    ]_vars

\* what the code keeps of C3: the error, and every value as it was
C3_NegativeLeavesValuesUnchanged ==
    [][EncodeStep =>
        \A i \in HandlerIdx :
            LET h == handlers[i]
            IN  NegativeFor(h, lastEv')
                => /\ \E j \in 1..Len(log') :
                        log'[j] = [h |-> h.name, err |-> "Counter value must be >=0"]
                   /\ \A l \in DOMAIN registry'[h.name].children :
                        registry'[h.name].children[l] = ValueAt(Children(h), l)
    ]_vars

(***************************************************************************)
(* C4.  A counter without a value path: every event adds exactly 1 to the  *)
(* series, whatever the event holds and whatever the count mode; after N   *)
(* events the values of the series sum to N.                               *)
(***************************************************************************)
ImplicitCounter(h) == h.kind = "counter" /\ h.Metric.Value = ""

C4_ImplicitCountSumsToEvents ==
    \A i \in HandlerIdx :
        ImplicitCounter(handlers[i]) => Total(Children(handlers[i])) = nEvents

\* C4 as amended: an event whose label paths resolve (a string, or absent)
\* adds exactly 1 to the value of the resolved label combination and changes
\* no other value, in every count mode; an event with a label path that
\* fails otherwise changes nothing and is reported.
C4_ImplicitCountPerResolvedEvent ==
    [][EncodeStep =>
        \A i \in HandlerIdx :
            LET h == handlers[i]
                new == registry'[h.name].children
                l == ExpectedLabels(h.Metric, lastEv')
            IN  ImplicitCounter(h) =>
                  IF LabelHard(h.Metric, lastEv')
                    THEN new = Children(h) /\ Logged(log', h)
                  ELSE /\ DOMAIN new = DOMAIN Children(h) \cup {l}
                       /\ new[l] = ValueAt(Children(h), l) + 1
                       /\ \A k \in DOMAIN new \ {l} : new[k] = Children(h)[k]
                       /\ Total(new) = Total(Children(h)) + 1
                       /\ ~Logged(log', h)
    ]_vars

\* an exist-mode counter without a value path has counted two events whose
\* value path is absent
C4_Witness ==
    /\ nEvents = 2
    /\ lastEv # NoEvent /\ lastEv["v"] = Absent
    /\ \E i \in HandlerIdx :
         /\ ImplicitCounter(handlers[i])
         /\ handlers[i].Metric.CountMode = "exist"
         /\ Total(Children(handlers[i])) = 2

(***************************************************************************)
(* C5.  An exist and a non_exist counter of one value path: every event    *)
(* adds 1 to exactly one of them, so after N events of which M hold the    *)
(* path the first stands at M and the second at N - M.                     *)
(***************************************************************************)
PresenceCounter(h, mode) ==
    h.kind = "counter" /\ h.Metric.Value # "" /\ h.Metric.CountMode = mode

Proceeds(h, ev) ==
    h.kind = "gauge" => ScanTree(ev, h.Metric.Value, "float64").err # "other"

C6_LabelResolution ==
    [][EncodeStep =>
        \A i \in HandlerIdx :
            LET h == handlers[i]
                new == registry'[h.name].children
                l == labelValues(h.Metric, lastEv')
                want == ExpectedLabels(h.Metric, lastEv')
            IN  IF LabelHard(h.Metric, lastEv')
                  THEN /\ l.err # "nil" /\ l.vals = <<>>
                       /\ new = Children(h)
                       /\ Logged(log', h)
                ELSE /\ l.err = "nil" /\ l.vals = want
                     /\ Len(l.vals) = Len(h.Metric.labelKeys)
                     /\ Proceeds(h, lastEv') =>
                            (want \in DOMAIN new /\ DOMAIN new = DOMAIN Children(h) \cup {want})
    ]_vars

\* the label "ab" (path q) holds "y", the label "b" (path p) is absent: the
\* series has the data point ("y", "")
C6_Witness ==
    /\ nEvents > 0
    /\ lastEv # NoEvent /\ lastEv["p"] = Absent /\ lastEv["q"] = Str("y")
    /\ \E i \in HandlerIdx :
         /\ handlers[i].Metric.labelKeys = <<<<97, 98>>, <<98>>>>
         /\ <<"y", "">> \in DOMAIN Children(handlers[i])

(***************************************************************************)
(* C7.  labelKeys: for every handler, the label names it holds are the     *)
(* keys of its labels map, each once, in ascending byte order, and are the *)
(* label names its series is registered with; once a handler exists, no    *)
(* operation changes them.                                                 *)
(***************************************************************************)
LabelKeysSorted(m) ==
    /\ {m.labelKeys[i] : i \in 1..Len(m.labelKeys)} = DOMAIN m.Labels
    /\ Len(m.labelKeys) = Cardinality(DOMAIN m.Labels)
    /\ \A i \in 1..(Len(m.labelKeys) - 1) : StrLess(m.labelKeys[i], m.labelKeys[i + 1])

C7_LabelKeysInvariant ==
    [][/\ \A i \in 1..Len(handlers') :
            /\ LabelKeysSorted(handlers'[i].Metric)
            /\ registry'[handlers'[i].name].labelNames = handlers'[i].Metric.labelKeys
       /\ \A i \in HandlerIdx :
            /\ i <= Len(handlers')
            /\ handlers'[i] = handlers[i]
            /\ registry'[handlers[i].name].labelNames = registry[handlers[i].name].labelNames
    ]_vars

\* a handler with the two labels "ab" and "b", after two events
C7_Witness ==
    /\ nEvents = 2
    /\ \E i \in HandlerIdx :
         /\ DOMAIN handlers[i].Metric.Labels = {<<97, 98>>, <<98>>}
         /\ handlers[i].Metric.labelKeys = <<<<97, 98>>, <<98>>>>

(***************************************************************************)
(* C8.  No error is dropped without a log entry: whenever the resolution   *)
(* of a label path or of the value path of a handler fails other than by   *)
(* "invalid path", or a counter's value is negative, in any count mode,    *)
(* the handler's HandleEvent returns the error and Encode logs it.         *)
(***************************************************************************)
\* the resolution of the value path that the handler's mode performs
ValueHard(h, ev) ==
    CASE h.kind = "gauge" -> ScanTree(ev, h.Metric.Value, "float64").err = "other"
      [] h.Metric.Value = "" -> FALSE
      [] h.Metric.CountMode = "value" ->
            \/ ScanTree(ev, h.Metric.Value, "float64").err = "other"
            \/ (ScanTree(ev, h.Metric.Value, "float64").err = "nil"
                    /\ ev[h.Metric.Value].num < 0)
      [] OTHER -> ScanTree(ev, h.Metric.Value, "interface").err = "other"

C8_NoErrorDropped ==
    nEvents > 0 =>
        \A i \in HandlerIdx :
            (LabelHard(handlers[i].Metric, lastEv) \/ ValueHard(handlers[i], lastEv))
                => Logged(log, handlers[i])

\* what the code keeps of C8: in the modes exist and non_exist an error of
\* the value path is never logged; everywhere else a failure is
C8_NoErrorDroppedOutsidePresenceModes ==
    nEvents > 0 =>
        \A i \in HandlerIdx :
            LET h == handlers[i]
                presence == PresenceCounter(h, "exist") \/ PresenceCounter(h, "non_exist")
            IN  Logged(log, h) <=>
                    \/ LabelHard(h.Metric, lastEv)
                    \/ (~presence /\ ValueHard(h, lastEv))

(***************************************************************************)
(* C9.  Configuration errors are fatal at startup: with a metric of        *)
(* unknown or missing type, an unknown count mode, or a name the registry  *)
(* refuses, Init or Start returns an error and the endpoint is never bound *)
(* nor served; when Start returns nil, every configured metric has exactly *)
(* one handler, registered, before the endpoint is bound.                  *)
(***************************************************************************)
ConfigError ==
    \E n \in DOMAIN rawConf :
        \/ ~rawConf[n].hasType
        \/ rawConf[n].Type \notin {"gauge", "counter"}
        \/ (rawConf[n].hasCountMode /\ rawConf[n].CountMode \notin {"value", "exist", "non_exist"})
        \/ (n \in DOMAIN registry /\ registry[n].kind = "other")

C9_ConfigErrorsFatal ==
    /\ lifecycle \in {"init_failed", "start_failed"}
         => (startErr # "nil" /\ ln = "nil" /\ ~served)
    /\ ConfigError => (ln = "nil" /\ ~served /\ lifecycle \notin {"serving", "closed"})
    /\ (ConfigError /\ lifecycle \notin {"new", "inited"}) => startErr # "nil"
    /\ (ln # "nil" \/ served) =>
         /\ startErr = "nil"
         /\ Len(handlers) = Cardinality(DOMAIN rawConf)
         /\ \A n \in DOMAIN rawConf :
              /\ Cardinality({i \in HandlerIdx : handlers[i].name = n}) = 1
              /\ n \in DOMAIN registry
              /\ registry[n].kind = rawConf[n].Type

\* a file of three metrics: Start built two handlers, the registry refused
\* the third name, Start returned the error and nothing is bound
C9_Witness ==
    /\ lifecycle = "start_failed"
    /\ Cardinality(DOMAIN rawConf) = 3
    /\ Len(handlers) = 2
    /\ startErr = "duplicate registration"
    /\ ln = "nil" /\ ~served

(***************************************************************************)
(* C10.  A gauge on an event without the value path: HandleEvent succeeds  *)
(* and sets the value of the resolved label combination to 0.              *)
(***************************************************************************)
C10_GaugeAbsentValueSetsZero ==
    nEvents > 0 =>
        \A i \in HandlerIdx :
            LET h == handlers[i]
                l == ExpectedLabels(h.Metric, lastEv)
            IN  (/\ h.kind = "gauge"
                 /\ ScanTree(lastEv, h.Metric.Value, "float64").err = "invalid path"
                 /\ ~LabelHard(h.Metric, lastEv))
                => /\ ~Logged(log, h)
                   /\ l \in DOMAIN Children(h)
                   /\ Children(h)[l] = 0

\* the second event lacks the value path and the gauge's value is 0
C10_Witness ==
    /\ nEvents = 2
    /\ lastEv # NoEvent /\ lastEv["v"] = Absent
    /\ \E i \in HandlerIdx :
         /\ handlers[i].kind = "gauge"
         /\ handlers[i].Metric.Labels = NoLabels
         /\ Children(handlers[i]) = (<<>> :> 0)

====
